---------------------------- MODULE Spec2Model ----------------------------
(***************************************************************************)
(* Model of the calendar planner backend (src/main.py): the free-slot      *)
(* finder find_free_slots, the step scheduler schedule_steps_into_blocks   *)
(* and the reflow handler adjust_block, over the "block" collection.       *)
(*                                                                         *)
(* A datetime is an integer number of seconds since 00:00:00 of day 0.     *)
(* An ISO-8601 string is the pair <<date, second of the day>>; a value     *)
(* that is no such pair is None (<<>>), an unparseable string (Garbage)    *)
(* or a key that the document lacks (Missing).                             *)
(***************************************************************************)
EXTENDS Integers, Sequences, FiniteSets, TLC

VARIABLES
    blocks,   \* the "block" collection, in insertion order
    req,      \* the request being served: operation, arguments, snapshot read
    resp      \* what the operation returned (or that it raised)

vars == <<blocks, req, resp>>

-----------------------------------------------------------------------------
(* Time *)

SecondsPerMinute == 60
SecondsPerHour == 60 * SecondsPerMinute
SecondsPerDay == 24 * SecondsPerHour

WorkStartHour == 8
WorkEndHour == 20

\* datetime(day d, h:m:s)
At(d, h, m, s) == d * SecondsPerDay + h * SecondsPerHour + m * SecondsPerMinute + s

\* datetime.date()
DateOf(t) == t \div SecondsPerDay

\* timedelta(minutes=n)
Minutes(n) == n * SecondsPerMinute

\* datetime.min: earlier than every datetime of the model, on no day of it
DatetimeMin == 0 - SecondsPerDay

\* Python's None where a datetime is expected
NoneDt == 0 - 1

\* Python's None where a string is expected
None == <<>>
\* a string that datetime.fromisoformat rejects
Garbage == <<0 - 1>>
\* a key the document does not have
Missing == <<0 - 2>>

\* datetime.isoformat()
isoformat(t) == <<t \div SecondsPerDay, t % SecondsPerDay>>

\* datetime.fromisoformat succeeds on x
Parses(x) == Len(x) = 2

\* datetime.fromisoformat(x), for x that parses
fromisoformat(x) == x[1] * SecondsPerDay + x[2]

Max(a, b) == IF a >= b THEN a ELSE b

\* list.sort(key=...): the stable ascending sort of seq by keys[i]
StableSort(seq, keys) ==
    LET n == Len(seq)
        rank(i) == Cardinality({j \in 1..n : keys[j] < keys[i] \/ (keys[j] = keys[i] /\ j < i)}) + 1
    IN  [p \in 1..n |-> seq[CHOOSE i \in 1..n : rank(i) = p]]

-----------------------------------------------------------------------------
(* find_free_slots *)

\* lines 118-124: what one entry of `existing` contributes. The try block
\* swallows a missing key, an unparseable string and None.date(); a None end
\* raises nothing here and is kept.
EntryKept(day, b) ==
    /\ Parses(b.start_iso)
    /\ b.end_iso # Missing
    /\ b.end_iso # Garbage
    /\ DateOf(fromisoformat(b.start_iso)) = DateOf(day)

EntryInterval(b) ==
    <<fromisoformat(b.start_iso),
      IF b.end_iso = None THEN NoneDt ELSE fromisoformat(b.end_iso)>>

\* lines 116-125
OccupiedIntervals(day, existing) ==
    LET kept == SelectSeq(existing, LAMBDA b : EntryKept(day, b))
        ivs == [i \in 1..Len(kept) |-> EntryInterval(kept[i])]
    IN  StableSort(ivs, [i \in 1..Len(ivs) |-> ivs[i][1]])

\* The walk with the cursor set to each interval's end, even an earlier one
RECURSIVE WalkIntervalsCursorAtEachEnd(_, _, _, _, _)
WalkIntervalsCursorAtEachEnd(intervals, i, cursor, free, duration_min) ==
    IF i > Len(intervals)
    THEN [raised |-> FALSE, cursor |-> cursor, free |-> free]
    ELSE LET s == intervals[i][1]
             e == intervals[i][2]
             free2 == IF s > cursor /\ s - cursor >= duration_min * SecondsPerMinute
                      THEN Append(free, <<cursor, s>>)
                      ELSE free
         IN  IF e = NoneDt
             THEN [raised |-> TRUE, cursor |-> cursor, free |-> free2]
             ELSE WalkIntervalsCursorAtEachEnd(intervals, i + 1, e, free2, duration_min)

\* lines 129-134: the walk over the sorted intervals from position i.
\* max(cursor, e) with e = None raises TypeError.
RECURSIVE WalkIntervals(_, _, _, _, _)
WalkIntervals(intervals, i, cursor, free, duration_min) ==
    IF i > Len(intervals)
    THEN [raised |-> FALSE, cursor |-> cursor, free |-> free]
    ELSE LET s == intervals[i][1]
             e == intervals[i][2]
             free2 == IF s > cursor /\ s - cursor >= duration_min * SecondsPerMinute
                      THEN Append(free, <<cursor, s>>)
                      ELSE free
         IN  IF e = NoneDt
             THEN [raised |-> TRUE, cursor |-> cursor, free |-> free2]
             ELSE WalkIntervals(intervals, i + 1, Max(cursor, e), free2, duration_min)

\* lines 108-137
find_free_slots(day, existing, duration_min) ==
    LET start_day == At(DateOf(day), WorkStartHour, 0, 0)
        end_day == At(DateOf(day), WorkEndHour, 0, 0)
        w == WalkIntervals(OccupiedIntervals(day, existing), 1, start_day, <<>>, duration_min)
    IN  IF w.raised
        THEN [raised |-> TRUE, free |-> <<>>]
        ELSE [raised |-> FALSE,
              free |-> IF end_day > w.cursor
                          /\ end_day - w.cursor >= duration_min * SecondsPerMinute
                       THEN Append(w.free, <<w.cursor, end_day>>)
                       ELSE w.free]

-----------------------------------------------------------------------------
(* Documents of the "block" collection *)

Block(title, start_iso, end_iso, fixed, duration_minutes) ==
    [title |-> title, start_iso |-> start_iso, end_iso |-> end_iso, fixed |-> fixed,
     duration_minutes |-> duration_minutes]

\* All sequences over S of length at most n
RECURSIVE SeqsUpTo(_, _)
SeqsUpTo(S, n) ==
    IF n = 0 THEN {<<>>}
    ELSE LET shorter == SeqsUpTo(S, n - 1)
         IN  shorter \cup {Append(q, x) : q \in {r \in shorter : Len(r) = n - 1}, x \in S}

NoRequest == [op |-> "none"]
NoResponse == [raised |-> FALSE]

-----------------------------------------------------------------------------
(* SpecSlots: find_free_slots applied to bounded inputs *)

MaxExisting == 2

\* The day every query of the model asks about
QueryDay == At(1, 0, 0, 0)

\* start_iso / end_iso values of the occupied entries: before, inside and
\* after the working window of the queried day, another day, and malformed
SlotIsoDomain ==
    {isoformat(At(1, 7, 0, 0)), isoformat(At(1, 9, 0, 0)), isoformat(At(1, 10, 0, 0)),
     isoformat(At(1, 21, 0, 0)), isoformat(At(2, 9, 0, 0)), Garbage, None}

SlotEntries == {Block(0, s, e, FALSE, 0) : s \in SlotIsoDomain, e \in SlotIsoDomain}

SlotDurations == {0, 90, 720}

\* The occupied entries are whatever the caller passes: any list of dicts
InitSlots ==
    /\ blocks \in SeqsUpTo(SlotEntries, MaxExisting)
    /\ req = NoRequest
    /\ resp = NoResponse

FindFreeSlotsCall ==
    /\ req.op = "none"
    /\ \E duration_min \in SlotDurations :
         /\ req' = [op |-> "find_free_slots", day |-> QueryDay, existing |-> blocks,
                    duration_min |-> duration_min]
         /\ resp' = find_free_slots(QueryDay, blocks, duration_min)
    /\ UNCHANGED blocks

NextSlots == FindFreeSlotsCall

SpecSlots == InitSlots /\ [][NextSlots]_vars

\* find_free_slots has returned a list of gaps
SlotsReturned == req.op = "find_free_slots" /\ ~resp.raised

\* The well-formed occupied intervals <<start, end>> that start on the queried day
WellFormedOccupied(day, existing) ==
    {<<fromisoformat(existing[i].start_iso), fromisoformat(existing[i].end_iso)>> :
        i \in {j \in 1..Len(existing) :
                 /\ Parses(existing[j].start_iso)
                 /\ Parses(existing[j].end_iso)
                 /\ DateOf(fromisoformat(existing[j].start_iso)) = DateOf(day)}}

\* C2: every gap returned by find_free_slots lies within the working window
\* of the queried day: start >= 08:00 and end <= 20:00.
C2_GapsInsideWindow ==
    SlotsReturned =>
        \A i \in 1..Len(resp.free) :
            /\ resp.free[i][1] >= At(DateOf(req.day), WorkStartHour, 0, 0)
            /\ resp.free[i][2] <= At(DateOf(req.day), WorkEndHour, 0, 0)

\* C3: the gaps returned by find_free_slots are pairwise disjoint, strictly
\* ascending by start, non-empty and each at least duration_min minutes long;
\* and no gap lies between two adjacent or overlapping occupied intervals.
C3_GapsDisjointOrdered ==
    SlotsReturned =>
        /\ \A i \in 1..Len(resp.free) :
              /\ resp.free[i][2] > resp.free[i][1]
              /\ resp.free[i][2] - resp.free[i][1] >= req.duration_min * SecondsPerMinute
        /\ \A i, j \in 1..Len(resp.free) :
              i < j => /\ resp.free[i][1] < resp.free[j][1]
                       /\ resp.free[i][2] <= resp.free[j][1]
        /\ \A a, b \in WellFormedOccupied(req.day, req.existing) :
              (a[1] <= a[2] /\ b[1] <= b[2] /\ a[1] <= b[1] /\ b[1] <= a[2]) =>
                  \A i \in 1..Len(resp.free) :
                      \/ resp.free[i][2] <= a[1]
                      \/ resp.free[i][1] >= Max(a[2], b[2])

-----------------------------------------------------------------------------
(* schedule_steps_into_blocks *)

\* A date string "YYYY-MM-DD" is <<day>>, a time string "HH:MM" is <<hour, minute>>
iso_for(date_str, time_str) ==
    IF date_str = None \/ time_str = None
    THEN NoneDt
    ELSE At(date_str[1], time_str[1], time_str[2], 0)

FitConflict == "Schritte passen nicht vollstaendig in das Zeitfenster."
NoSlotConflict == "Kein freies Zeitfenster gefunden. Vorschlag: aufteilen oder anderen Tag waehlen."

\* PlaceFixed that withholds a block that does not fit the window
PlaceFixedDropsOverflow(st, title, dur, base_info, end_iso) ==
    LET e == st.cursor + Minutes(dur)
    IN  IF end_iso # NoneDt /\ e > end_iso
        THEN [st EXCEPT !.conflicts = Append(@, FitConflict)]
        ELSE [st EXCEPT
                !.suggested = Append(@, Block(title, isoformat(st.cursor), isoformat(e),
                                              base_info.start_time # None, dur)),
                !.cursor = e]

\* lines 211-226: one step with a fixed start time
PlaceFixed(st, title, dur, base_info, end_iso) ==
    LET e == st.cursor + Minutes(dur)
    IN  [st EXCEPT
            !.conflicts = IF end_iso # NoneDt /\ e > end_iso
                          THEN Append(@, FitConflict) ELSE @,
            !.suggested = Append(@, Block(title, isoformat(st.cursor), isoformat(e),
                                          base_info.start_time # None, dur)),
            !.cursor = e]

\* PlaceFree that looks for free slots among the stored blocks only
PlaceFreeIgnoresSuggested(st, title, dur, day, existing) ==
    LET found == find_free_slots(day, existing, dur)
    IN  IF found.raised
        THEN [st EXCEPT !.raised = TRUE]
        ELSE IF found.free # <<>>
        THEN [st EXCEPT !.suggested = Append(@, Block(title, isoformat(found.free[1][1]),
                                                     isoformat(found.free[1][2]), FALSE, dur))]
        ELSE [st EXCEPT !.conflicts = Append(@, NoSlotConflict)]

\* PlaceFree that reports nothing when no slot is found
PlaceFreeDropsSilently(st, title, dur, day, existing) ==
    LET found == find_free_slots(day, existing \o st.suggested, dur)
    IN  IF found.raised
        THEN [st EXCEPT !.raised = TRUE]
        ELSE IF found.free # <<>>
        THEN [st EXCEPT !.suggested = Append(@, Block(title, isoformat(found.free[1][1]),
                                                     isoformat(found.free[1][2]), FALSE, dur))]
        ELSE st

\* lines 227-244: one step placed in the first free slot of the day
PlaceFree(st, title, dur, day, existing) ==
    LET found == find_free_slots(day, existing \o st.suggested, dur)
    IN  IF found.raised
        THEN [st EXCEPT !.raised = TRUE]
        ELSE IF found.free # <<>>
        THEN [st EXCEPT !.suggested = Append(@, Block(title, isoformat(found.free[1][1]),
                                                     isoformat(found.free[1][2]), FALSE, dur))]
        ELSE [st EXCEPT !.conflicts = Append(@, NoSlotConflict)]

\* lines 209-244: the loop over the steps from position i
RECURSIVE ScheduleLoop(_, _, _, _, _, _, _)
ScheduleLoop(steps, i, st, base_info, day, end_iso, existing) ==
    IF i > Len(steps) \/ st.raised
    THEN st
    ELSE LET step == steps[i]
             st2 == IF st.cursor # NoneDt
                    THEN PlaceFixed(st, step.title, step.duration_minutes, base_info, end_iso)
                    ELSE PlaceFree(st, step.title, step.duration_minutes, day, existing)
         IN  ScheduleLoop(steps, i + 1, st2, base_info, day, end_iso, existing)

\* lines 192-251; `existing` is the block collection, `now` is datetime.now()
schedule_steps_into_blocks(steps, base_info, existing, now) ==
    LET day == IF base_info.date # None THEN At(base_info.date[1], 0, 0, 0) ELSE now
        start_iso == iso_for(base_info.date, base_info.start_time)
        end_iso == iso_for(base_info.date, base_info.end_time)
        st == ScheduleLoop(steps, 1,
                           [cursor |-> start_iso, suggested |-> <<>>, conflicts |-> <<>>,
                            raised |-> FALSE],
                           base_info, day, end_iso, existing)
    IN  [raised |-> st.raised, suggested_blocks |-> st.suggested, conflicts |-> st.conflicts]

-----------------------------------------------------------------------------
(* adjust_block *)

\* lines 381-385: the sort key of a block; a missing key or an unparseable
\* string gives datetime.min, a None start is returned as it is
parse_dt(x) ==
    IF x.start_iso = None THEN NoneDt
    ELSE IF Parses(x.start_iso) THEN fromisoformat(x.start_iso)
    ELSE DatetimeMin

\* Collides that also moves fixed blocks
CollidesIgnoringFixed(b, bs, be, s, e) == ~(be <= s \/ bs >= e)

\* Collision test that also counts intervals that only touch
CollidesWhenTouching(b, bs, be, s, e) == ~b.fixed /\ ~(be < s \/ bs > e)

\* line 395: the block is movable and its interval [bs, be) meets the
\* occupied interval [s, e)
Collides(b, bs, be, s, e) == ~b.fixed /\ ~(be <= s \/ bs >= e)

\* lines 396-398: where a colliding block goes, given the cursor e
Pushed(bs, be, e) ==
    LET dur == (be - bs) \div SecondsPerMinute
    IN  [new_start |-> e, new_end |-> e + Minutes(dur)]

\* blocks.update_one(..., {"$set": {"start_iso": ..., "end_iso": ...}})
UpdateOne(store, id, new_start, new_end) ==
    [store EXCEPT ![id].start_iso = isoformat(new_start),
                  ![id].end_iso = isoformat(new_end)]

\* lines 389-400: the loop over the other blocks, from position i of the
\* sorted ids. st is [store, e, writes, raised]: the collection as written so
\* far, the cursor, the update_one calls made and whether the loop raised.
RECURSIVE Reflow(_, _, _, _, _, _)
Reflow(existing, others, i, s, day, st) ==
    IF i > Len(others) \/ st.raised
    THEN st
    ELSE LET id == others[i]
             b == existing[id]
             bs == parse_dt(b)
             be == IF b.end_iso = None THEN NoneDt ELSE fromisoformat(b.end_iso)
         IN  IF b.end_iso = Missing \/ b.end_iso = Garbage \/ bs = NoneDt
             THEN [st EXCEPT !.raised = TRUE]
             ELSE IF DateOf(bs) # day
             THEN Reflow(existing, others, i + 1, s, day, st)
             ELSE IF ~b.fixed /\ be = NoneDt
             THEN [st EXCEPT !.raised = TRUE]
             ELSE IF Collides(b, bs, be, s, st.e)
             THEN LET to == Pushed(bs, be, st.e)
                  IN  Reflow(existing, others, i + 1, s, day,
                             [st EXCEPT
                                !.store = UpdateOne(@, id, to.new_start, to.new_end),
                                !.e = to.new_end,
                                !.writes = Append(@, [id |-> id,
                                                      new_start |-> to.new_start,
                                                      new_end |-> to.new_end])])
             ELSE Reflow(existing, others, i + 1, s, day, st)

\* Resolve that drops the extension when the request supplies an end
ResolveWithoutExtensionOfNewEnd(target, inp) ==
    LET stored_s == IF target.start_iso \in {None, Missing} THEN None ELSE target.start_iso
        stored_e == IF target.end_iso \in {None, Missing} THEN None ELSE target.end_iso
        s_iso == IF inp.new_start_iso # None THEN inp.new_start_iso ELSE stored_s
        e_iso == IF inp.new_end_iso # None THEN inp.new_end_iso ELSE stored_e
        bad == \/ stored_s = Garbage \/ stored_e = Garbage
               \/ inp.new_start_iso = Garbage \/ inp.new_end_iso = Garbage
               \/ (inp.extend_minutes # 0 /\ e_iso = None)
    IN  IF bad
        THEN [raised |-> TRUE, s |-> NoneDt, e |-> NoneDt]
        ELSE [raised |-> FALSE,
              s |-> IF s_iso = None THEN NoneDt ELSE fromisoformat(s_iso),
              e |-> IF e_iso = None THEN NoneDt
                    ELSE IF inp.new_end_iso # None THEN fromisoformat(e_iso)
                    ELSE fromisoformat(e_iso) + Minutes(inp.extend_minutes)]

\* lines 361-369: the target's start and end as resolved from the stored
\* block and the request; raised when a string does not parse or when
\* extend_minutes is added to None
Resolve(target, inp) ==
    LET stored_s == IF target.start_iso \in {None, Missing} THEN None ELSE target.start_iso
        stored_e == IF target.end_iso \in {None, Missing} THEN None ELSE target.end_iso
        s_iso == IF inp.new_start_iso # None THEN inp.new_start_iso ELSE stored_s
        e_iso == IF inp.new_end_iso # None THEN inp.new_end_iso ELSE stored_e
        bad == \/ stored_s = Garbage \/ stored_e = Garbage
               \/ inp.new_start_iso = Garbage \/ inp.new_end_iso = Garbage
               \/ (inp.extend_minutes # 0 /\ e_iso = None)
    IN  IF bad
        THEN [raised |-> TRUE, s |-> NoneDt, e |-> NoneDt]
        ELSE [raised |-> FALSE,
              s |-> IF s_iso = None THEN NoneDt ELSE fromisoformat(s_iso),
              e |-> IF e_iso = None THEN NoneDt
                    ELSE fromisoformat(e_iso) + Minutes(inp.extend_minutes)]

\* lines 379-387: the ids of the other blocks sorted by parse_dt; the sort
\* raises when it compares a None key
OtherIds(existing, target_id) ==
    LET ids == SelectSeq([i \in 1..Len(existing) |-> i], LAMBDA i : i # target_id)
        keys == [k \in 1..Len(ids) |-> parse_dt(existing[ids[k]])]
    IN  IF Len(ids) >= 2 /\ \E k \in 1..Len(ids) : keys[k] = NoneDt
        THEN [raised |-> TRUE, ids |-> <<>>]
        ELSE [raised |-> FALSE, ids |-> StableSort(ids, keys)]

\* lines 347-402, with the database available (line 351). existing is the
\* collection as read at line 355; the result
\* is the collection as left behind, the HTTP status and the updates made.
\* A block's _id is its position in the collection.
adjust_block(inp, existing) ==
    IF inp.block_id \notin 1..Len(existing)
    THEN [store |-> existing, status |-> 404, writes |-> <<>>]
    ELSE LET target == existing[inp.block_id]
             r == Resolve(target, inp)
         IN  IF r.raised
             THEN [store |-> existing, status |-> 500, writes |-> <<>>]
             ELSE IF r.s = NoneDt \/ r.e = NoneDt
             THEN [store |-> existing, status |-> 400, writes |-> <<>>]
             ELSE LET written == UpdateOne(existing, inp.block_id, r.s, r.e)
                      first == <<[id |-> inp.block_id, new_start |-> r.s, new_end |-> r.e]>>
                      others == OtherIds(existing, inp.block_id)
                      st == Reflow(existing, others.ids, 1, r.s, DateOf(r.s),
                                   [store |-> written, e |-> r.e, writes |-> first,
                                    raised |-> others.raised])
                  IN  [store |-> st.store,
                       status |-> IF st.raised THEN 500 ELSE 200,
                       writes |-> st.writes]

-----------------------------------------------------------------------------
(* SpecSched: schedule_steps_into_blocks on a bounded collection *)

MaxStored == 2
MaxSteps == 2

\* datetime.now() of the scheduling request
Now == At(1, 13, 45, 0)

SchedEntries ==
    {Block(0, isoformat(At(1, 9, 0, 0)), isoformat(At(1, 10, 0, 0)), FALSE, 60),
     Block(0, isoformat(At(1, 10, 0, 0)), isoformat(At(1, 11, 30, 0)), FALSE, 90),
     Block(0, isoformat(At(1, 8, 0, 0)), isoformat(At(1, 20, 0, 0)), TRUE, 720),
     Block(0, isoformat(At(1, 7, 0, 0)), isoformat(At(1, 8, 30, 0)), FALSE, 90),
     Block(0, isoformat(At(1, 21, 0, 0)), isoformat(At(1, 22, 0, 0)), FALSE, 60),
     Block(0, isoformat(At(1, 12, 0, 0)), isoformat(At(1, 11, 0, 0)), FALSE, 60),
     Block(0, isoformat(At(2, 9, 0, 0)), isoformat(At(2, 10, 0, 0)), FALSE, 60),
     Block(0, isoformat(At(1, 15, 0, 0)), Garbage, FALSE, 60),
     Block(0, isoformat(At(1, 16, 0, 0)), None, TRUE, 60)}

StepDurations == {40, 120}

\* Step lists whose titles are their positions ("... - Schritt i")
StepLists ==
    {[i \in 1..Len(ds) |-> [title |-> i, duration_minutes |-> ds[i]]] :
        ds \in SeqsUpTo(StepDurations, MaxSteps)}

BaseInfos ==
    [date : {None, <<1>>}, start_time : {None, <<9, 0>>}, end_time : {None, <<10, 0>>}]

\* The collection holds what confirm_plan (lines 293-304) and adjust_block
\* have written; confirm_plan stores the dicts of its request as they come,
\* so every list of the documents below is a collection the server can hold.
InitSched ==
    /\ blocks \in SeqsUpTo(SchedEntries, MaxStored)
    /\ req = NoRequest
    /\ resp = NoResponse

ScheduleCall ==
    /\ req.op = "none"
    /\ \E steps \in StepLists, base_info \in BaseInfos :
         /\ req' = [op |-> "schedule", steps |-> steps, base_info |-> base_info,
                    existing |-> blocks, now |-> Now]
         /\ resp' = schedule_steps_into_blocks(steps, base_info, blocks, Now)
    /\ UNCHANGED blocks

NextSched == ScheduleCall

SpecSched == InitSched /\ [][NextSched]_vars

\* schedule_steps_into_blocks has returned a plan
SchedReturned == req.op = "schedule" /\ ~resp.raised

\* The run had a start timestamp (the cursor of line 207 was set)
RanFixed == SchedReturned /\ iso_for(req.base_info.date, req.base_info.start_time) # NoneDt
\* The run had none and looked for free slots
RanFree == SchedReturned /\ iso_for(req.base_info.date, req.base_info.start_time) = NoneDt

\* The day a scheduling request plans
SchedDay ==
    IF req.base_info.date # None THEN At(req.base_info.date[1], 0, 0, 0) ELSE req.now

StartOf(b) == fromisoformat(b.start_iso)
EndOf(b) == fromisoformat(b.end_iso)

\* Two blocks share some time
Overlap(a, b) == StartOf(a) < EndOf(b) /\ StartOf(b) < EndOf(a)

\* The positions of the well-formed stored blocks that start on the given day
OnDay(existing, day) ==
    {i \in 1..Len(existing) :
        /\ Parses(existing[i].start_iso)
        /\ Parses(existing[i].end_iso)
        /\ DateOf(StartOf(existing[i])) = DateOf(day)}

\* C1: after a free-mode run no placed block overlaps another placed block or
\* a well-formed stored block that starts on the scheduled day; so if the
\* stored movable blocks of that day did not overlap each other, the placed
\* and stored blocks of that day hold no two overlapping movable blocks.
C1_FreeModeNoOverlap ==
    RanFree =>
        LET placed == resp.suggested_blocks
            stored == OnDay(req.existing, SchedDay)
            all == placed \o req.existing
            movable == (1..Len(placed)) \cup
                       {Len(placed) + k : k \in {j \in stored : ~req.existing[j].fixed}}
        IN  /\ \A i, j \in 1..Len(placed) : i # j => ~Overlap(placed[i], placed[j])
            /\ \A i \in 1..Len(placed) : \A k \in stored : ~Overlap(placed[i], req.existing[k])
            /\ (\A j, k \in stored :
                    (j # k /\ ~req.existing[j].fixed /\ ~req.existing[k].fixed)
                        => ~Overlap(req.existing[j], req.existing[k]))
                => \A x, y \in movable : x # y => ~Overlap(all[x], all[y])

\* A free-mode run that placed two steps beside a stored movable block of the day
C1_Witness ==
    /\ RanFree
    /\ Len(resp.suggested_blocks) >= 2
    /\ \E k \in OnDay(req.existing, SchedDay) :
          /\ ~req.existing[k].fixed
          /\ EndOf(req.existing[k]) > StartOf(req.existing[k])
          /\ StartOf(req.existing[k]) >= At(DateOf(SchedDay), WorkStartHour, 0, 0)
          /\ EndOf(req.existing[k]) <= At(DateOf(SchedDay), WorkEndHour, 0, 0)

\* C8: no step is silently dropped: in free mode every step yields one placed
\* block or one conflict entry, in fixed mode every step yields a placed
\* block; every conflict entry is a non-empty string.
C8_NoStepDropped ==
    /\ RanFree =>
          /\ Len(resp.suggested_blocks) + Len(resp.conflicts) = Len(req.steps)
          /\ \A i, j \in 1..Len(resp.suggested_blocks) :
                i < j => resp.suggested_blocks[i].title < resp.suggested_blocks[j].title
          /\ \A i \in 1..Len(resp.suggested_blocks) :
                resp.suggested_blocks[i].title \in 1..Len(req.steps)
    /\ RanFixed =>
          /\ Len(resp.suggested_blocks) = Len(req.steps)
          /\ \A i \in 1..Len(req.steps) : resp.suggested_blocks[i].title = req.steps[i].title
    /\ SchedReturned => \A i \in 1..Len(resp.conflicts) : resp.conflicts[i] # ""

\* A free-mode run in which one step was placed and another found no slot
C8_Witness ==
    /\ RanFree
    /\ Len(resp.suggested_blocks) >= 1
    /\ Len(resp.conflicts) >= 1

\* C9: in fixed mode the steps form a contiguous chain from the start time,
\* each block as long as its step; a step that ends after end_time adds a
\* conflict and is still placed, so every step is returned as a block.
C9_FixedModeChain ==
    RanFixed =>
        LET placed == resp.suggested_blocks
            start == iso_for(req.base_info.date, req.base_info.start_time)
            limit == iso_for(req.base_info.date, req.base_info.end_time)
            late == {i \in 1..Len(placed) : limit # NoneDt /\ EndOf(placed[i]) > limit}
        IN  /\ Len(placed) = Len(req.steps)
            /\ Len(placed) >= 1 => StartOf(placed[1]) = start
            /\ \A i \in 1..Len(placed) :
                  /\ placed[i].title = req.steps[i].title
                  /\ EndOf(placed[i]) = StartOf(placed[i]) + Minutes(req.steps[i].duration_minutes)
                  /\ i > 1 => StartOf(placed[i]) = EndOf(placed[i - 1])
            /\ Len(resp.conflicts) = Cardinality(late)
            /\ \A i \in 1..Len(resp.conflicts) : resp.conflicts[i] = FitConflict

\* A fixed-mode run of two steps of which the second ends after end_time
C9_Witness ==
    /\ RanFixed
    /\ Len(req.steps) = 2
    /\ Len(resp.suggested_blocks) = 2
    /\ Len(resp.conflicts) = 1
    /\ EndOf(resp.suggested_blocks[2])
          > iso_for(req.base_info.date, req.base_info.end_time)

\* C10: whenever base_info gives a start time the run is in fixed mode, from
\* that start time, and every block is fixed; whenever it gives none the run
\* is in free mode and every block is movable.
C10_StartTimeDecidesMode ==
    SchedReturned =>
        LET placed == resp.suggested_blocks
            t == req.base_info.start_time
        IN  /\ t # None =>
                  /\ \A i \in 1..Len(placed) : placed[i].fixed
                  /\ Len(placed) >= 1 =>
                        StartOf(placed[1]) = At(DateOf(SchedDay), t[1], t[2], 0)
            /\ t = None => \A i \in 1..Len(placed) : ~placed[i].fixed

-----------------------------------------------------------------------------
(* SpecAdjust: one adjust_block request on a bounded collection *)

MaxAdjustBlocks == 3

\* The blocks a collection of the model is drawn from, in insertion order
AdjustEntries ==
    <<Block(0, isoformat(At(1, 9, 45, 0)), isoformat(At(1, 10, 15, 0)), FALSE, 30),
      Block(0, isoformat(At(1, 9, 0, 0)), isoformat(At(1, 9, 30, 0)), FALSE, 30),
      Block(0, isoformat(At(1, 9, 20, 0)), isoformat(At(1, 9, 40, 0)), TRUE, 20),
      Block(0, isoformat(At(1, 9, 15, 0)), isoformat(At(1, 9, 45, 0)), FALSE, 30),
      Block(0, isoformat(At(1, 9, 30, 0)), isoformat(At(1, 9, 59, 30)), FALSE, 29),
      Block(0, isoformat(At(1, 9, 50, 0)), isoformat(At(1, 9, 40, 0)), FALSE, 10),
      Block(0, isoformat(At(2, 0, 0, 0)), isoformat(At(2, 1, 0, 0)), FALSE, 60),
      Block(0, isoformat(At(1, 23, 0, 0)), isoformat(At(1, 23, 50, 0)), FALSE, 50),
      Block(0, isoformat(At(1, 9, 10, 0)), Garbage, FALSE, 30),
      Block(0, None, isoformat(At(1, 9, 30, 0)), FALSE, 30),
      Block(0, isoformat(At(1, 9, 5, 0)), None, FALSE, 30),
      Block(0, Garbage, isoformat(At(1, 9, 35, 0)), FALSE, 30)>>

\* The entries at the positions I, in the order of AdjustEntries
Pick(I) ==
    [p \in 1..Cardinality(I) |->
        AdjustEntries[CHOOSE i \in I : Cardinality({j \in I : j < i}) = p - 1]]

AdjustStores ==
    {Pick(I) : I \in {J \in SUBSET (1..Len(AdjustEntries)) : Cardinality(J) <= MaxAdjustBlocks}}

AdjustInputs(n) ==
    [block_id : 1..(n + 1),
     new_start_iso : {None, isoformat(At(1, 9, 0, 0)), isoformat(At(1, 22, 0, 0))},
     new_end_iso : {None, isoformat(At(1, 10, 0, 0)), isoformat(At(1, 23, 30, 0))},
     extend_minutes : {0, 30}]

\* As for InitSched: any of these collections can have been stored
InitAdjust ==
    /\ blocks \in AdjustStores
    /\ req = NoRequest
    /\ resp = NoResponse

AdjustCall ==
    /\ req.op = "none"
    /\ \E inp \in AdjustInputs(Len(blocks)) :
         LET out == adjust_block(inp, blocks)
         IN  /\ req' = [op |-> "adjust", inp |-> inp, existing |-> blocks]
             /\ blocks' = out.store
             /\ resp' = [raised |-> out.status = 500, status |-> out.status,
                         writes |-> out.writes]

NextAdjust == AdjustCall

SpecAdjust == InitAdjust /\ [][NextAdjust]_vars

\* An adjust_block request has been served
Adjusted == req.op = "adjust"
\* ... and answered {"status": "ok"}
AdjustedOk == Adjusted /\ resp.status = 200

\* The update_one calls of the request after the target's own: the cascade
Cascade == SubSeq(resp.writes, 2, Len(resp.writes))

WellFormed(b) == Parses(b.start_iso) /\ Parses(b.end_iso)

\* C4: every fixed block other than the target keeps its start and end.
C4_FixedNeverMoved ==
    Adjusted =>
        \A id \in 1..Len(req.existing) :
            (id # req.inp.block_id /\ req.existing[id].fixed) =>
                /\ blocks[id].start_iso = req.existing[id].start_iso
                /\ blocks[id].end_iso = req.existing[id].end_iso

\* A served request whose target's new interval overlaps a fixed block,
\* and which pushed a movable block onto that fixed block
C4_Witness ==
    /\ AdjustedOk
    /\ Len(Cascade) >= 1
    /\ \E id \in 1..Len(blocks) :
          /\ id # req.inp.block_id
          /\ blocks[id].fixed
          /\ WellFormed(blocks[id])
          /\ Overlap(blocks[id], blocks[req.inp.block_id])

\* C5: every cascaded block is exactly as long after the push as before.
C5_CascadeKeepsLength ==
    Adjusted =>
        \A k \in 1..Len(Cascade) :
            Cascade[k].new_end - Cascade[k].new_start
                = EndOf(req.existing[Cascade[k].id]) - StartOf(req.existing[Cascade[k].id])

\* C6: the cascaded blocks are packed back to back from the target's
\* resolved end, and keep their original relative order of start times.
C6_CascadePackedInOrder ==
    Adjusted =>
        /\ Len(Cascade) >= 1 => Cascade[1].new_start = resp.writes[1].new_end
        /\ \A k \in 2..Len(Cascade) : Cascade[k].new_start = Cascade[k - 1].new_end
        /\ \A k, l \in 1..Len(Cascade) :
              StartOf(req.existing[Cascade[k].id]) < StartOf(req.existing[Cascade[l].id])
                  => Cascade[k].new_start <= Cascade[l].new_start

\* No two well-formed movable blocks of the collection share any time
NoMovableOverlap(store) ==
    \A i, j \in 1..Len(store) :
        (i # j /\ ~store[i].fixed /\ ~store[j].fixed
            /\ WellFormed(store[i]) /\ WellFormed(store[j]))
            => ~Overlap(store[i], store[j])

\* C7: if no two movable blocks overlapped before a request that completes,
\* no two movable blocks overlap after it.
C7_ReflowLeavesNoOverlap ==
    (AdjustedOk /\ NoMovableOverlap(req.existing)) => NoMovableOverlap(blocks)

\* C11: every returned block, in fixed and in free mode, records its source
\* step's duration, is exactly that many minutes long, and ends after it starts.
C11_BlockAsLongAsItsStep ==
    SchedReturned =>
        \A i \in 1..Len(resp.suggested_blocks) :
            LET b == resp.suggested_blocks[i]
            IN  /\ b.title \in 1..Len(req.steps)
                /\ b.duration_minutes = req.steps[b.title].duration_minutes
                /\ EndOf(b) - StartOf(b) = Minutes(b.duration_minutes)
                /\ EndOf(b) > StartOf(b)

\* The request leaves the target without a start or without an end: none is
\* supplied and the stored block has none
StartMissing ==
    /\ req.inp.new_start_iso = None
    /\ req.existing[req.inp.block_id].start_iso \in {None, Missing}
EndMissing ==
    /\ req.inp.new_end_iso = None
    /\ req.existing[req.inp.block_id].end_iso \in {None, Missing}

\* C12: a request for an unknown block id is rejected as not found, a request
\* whose resolved start or end is missing is rejected as invalid, whatever
\* else it supplies; neither changes any block.
C12_RejectedWithoutMutation ==
    Adjusted =>
        /\ req.inp.block_id \notin 1..Len(req.existing) =>
              (resp.status = 404 /\ blocks = req.existing)
        /\ (req.inp.block_id \in 1..Len(req.existing) /\ (StartMissing \/ EndMissing)) =>
              (resp.status = 400 /\ blocks = req.existing)

\* Every block of the collection is well formed and ends after it starts
AllEndAfterStart(store) ==
    \A i \in 1..Len(store) : WellFormed(store[i]) /\ EndOf(store[i]) > StartOf(store[i])

\* C13: a successful request on blocks that all end after they start leaves
\* every block, the target and the cascaded ones, ending after it starts.
C13_EndStaysAfterStart ==
    (AdjustedOk /\ AllEndAfterStart(req.existing)) => AllEndAfterStart(blocks)

\* Every block is well formed and duration_minutes is its length in minutes
AllDurationsConsistent(store) ==
    \A i \in 1..Len(store) :
        /\ WellFormed(store[i])
        /\ EndOf(store[i]) - StartOf(store[i]) = Minutes(store[i].duration_minutes)

\* C14: a successful request on blocks whose duration_minutes all equal their
\* length leaves every block, the target included, with duration_minutes
\* equal to its length.
C14_DurationFieldStaysConsistent ==
    (AdjustedOk /\ AllDurationsConsistent(req.existing)) => AllDurationsConsistent(blocks)

\* The ids of the request's snapshot that are the target or well formed
KeptIds ==
    {i \in 1..Len(req.existing) : i = req.inp.block_id \/ WellFormed(req.existing[i])}

\* The snapshot without its malformed non-target blocks, the position in it
\* of the block with id i, and the same request addressed to that position
WithoutMalformed == SelectSeq([i \in 1..Len(req.existing) |-> i], LAMBDA i : i \in KeptIds)
PositionOf(i) == Cardinality({j \in KeptIds : j <= i})
SameRequestWithoutMalformed ==
    adjust_block([req.inp EXCEPT !.block_id = PositionOf(req.inp.block_id)],
                 [p \in 1..Len(WithoutMalformed) |-> req.existing[WithoutMalformed[p]]])

\* C15: a request on a collection that holds a malformed non-target block
\* does not fail: the malformed block is left as it is, the target and the
\* well-formed blocks end as they would without it, and no error follows the
\* target's own update.
C15_MalformedBlockSkipped ==
    (Adjusted /\ Len(resp.writes) >= 1 /\ KeptIds # 1..Len(req.existing)) =>
        /\ resp.status = 200
        /\ \A i \in (1..Len(req.existing)) \ KeptIds : blocks[i] = req.existing[i]
        /\ \A i \in KeptIds : blocks[i] = SameRequestWithoutMalformed.store[PositionOf(i)]


\* The occupied entries of the request whose start and end both parse
WellFormedEntries ==
    SelectSeq(req.existing, LAMBDA b : Parses(b.start_iso) /\ Parses(b.end_iso))

\* C16: find_free_slots never fails on a malformed occupied entry, and its
\* result is the result on the list with the malformed entries removed.
C16_MalformedEntryIgnored ==
    req.op = "find_free_slots" =>
        /\ ~resp.raised
        /\ resp.free = find_free_slots(req.day, WellFormedEntries, req.duration_min).free


\* The ids of the non-target blocks the request has updated
CascadeIds == {Cascade[k].id : k \in 1..Len(Cascade)}

\* The k-th update of the request is a push of a movable block that starts
\* on the day of the target's resolved start and whose stored interval
\* overlaps the interval from that start to the cursor, the end written by
\* the update before it
PushJustified(k) ==
    LET w == resp.writes[k]
        b == req.existing[w.id]
        s == resp.writes[1].new_start
        cursor == resp.writes[k - 1].new_end
    IN  /\ w.id # req.inp.block_id
        /\ ~b.fixed
        /\ WellFormed(b)
        /\ DateOf(StartOf(b)) = DateOf(s)
        /\ ~(EndOf(b) <= s \/ StartOf(b) >= cursor)

\* C17: adjust_block modifies a non-target block only if it is movable,
\* starts on the target's new start date and overlaps the occupied interval
\* from the target's resolved start to the cascade cursor; every other
\* non-target block keeps its start and end.
C17_OnlyCollidingBlocksModified ==
    (Adjusted /\ Len(resp.writes) >= 1) =>
        /\ \A k \in 2..Len(resp.writes) : PushJustified(k)
        /\ \A i \in 1..Len(req.existing) :
              (i # req.inp.block_id /\ i \notin CascadeIds) => blocks[i] = req.existing[i]

\* A request that pushed one block and left alone a movable block of the
\* same day and a block of another day
C17_Witness ==
    /\ AdjustedOk
    /\ Len(Cascade) >= 1
    /\ \E i \in 1..Len(req.existing) :
          /\ i # req.inp.block_id /\ i \notin CascadeIds
          /\ ~req.existing[i].fixed /\ WellFormed(req.existing[i])
          /\ DateOf(StartOf(req.existing[i])) = DateOf(resp.writes[1].new_start)
          /\ blocks[i] = req.existing[i]


\* The start and end the request asks for, read from the request and the
\* stored target
AskedStart ==
    IF req.inp.new_start_iso # None THEN fromisoformat(req.inp.new_start_iso)
    ELSE StartOf(req.existing[req.inp.block_id])
AskedEnd ==
    (IF req.inp.new_end_iso # None THEN fromisoformat(req.inp.new_end_iso)
     ELSE EndOf(req.existing[req.inp.block_id])) + Minutes(req.inp.extend_minutes)

\* C18: the target's resolved start is new_start if supplied, else the
\* stored start; its resolved end is new_end if supplied, else the stored
\* end, plus extend_minutes; the target is written first with exactly these
\* values and the cascade cursor starts at this resolved end.
C18_TargetResolvedThenWritten ==
    (Adjusted /\ Len(resp.writes) >= 1) =>
        /\ resp.writes[1] = [id |-> req.inp.block_id,
                             new_start |-> AskedStart, new_end |-> AskedEnd]
        /\ blocks[req.inp.block_id] =
              [req.existing[req.inp.block_id] EXCEPT !.start_iso = isoformat(AskedStart),
                                                     !.end_iso = isoformat(AskedEnd)]
        /\ Len(Cascade) >= 1 => Cascade[1].new_start = AskedEnd

\* A request that supplies a start, an end and an extension, and pushes a block
C18_Witness ==
    /\ AdjustedOk
    /\ req.inp.new_start_iso # None
    /\ req.inp.new_end_iso # None
    /\ req.inp.extend_minutes # 0
    /\ Len(Cascade) >= 1


\* The gap <<a, b>> and the occupied interval <<s, e>> share some time
Intersects(gap, occ) == gap[1] < occ[2] /\ occ[1] < gap[2]

\* C20: every gap returned by find_free_slots is free and maximal: it
\* intersects no well-formed occupied interval that starts on the queried
\* day, it starts at the window start or at the end of an occupied interval,
\* and it ends at the start of an occupied interval or at the window end.
C20_GapsFreeAndMaximal ==
    SlotsReturned =>
        LET occupied == WellFormedOccupied(req.day, req.existing)
        IN  \A i \in 1..Len(resp.free) :
                LET gap == resp.free[i]
                IN  /\ \A occ \in occupied : ~Intersects(gap, occ)
                    /\ \/ gap[1] = At(DateOf(req.day), WorkStartHour, 0, 0)
                       \/ \E occ \in occupied : gap[1] = occ[2]
                    /\ \/ gap[2] = At(DateOf(req.day), WorkEndHour, 0, 0)
                       \/ \E occ \in occupied : gap[2] = occ[1]

\* A call that returned a gap before and a gap after an occupied interval
\* inside the window
C20_Witness ==
    /\ SlotsReturned
    /\ Len(resp.free) >= 2
    /\ \E occ \in WellFormedOccupied(req.day, req.existing) :
          /\ occ[1] < occ[2]
          /\ resp.free[1][2] = occ[1]
          /\ resp.free[2][1] = occ[2]


-----------------------------------------------------------------------------
\* Concurrent adjust_block requests. The endpoint is a plain def, which the
\* framework runs on a thread pool, so requests overlap in time. A request
\* reads the whole collection once (line 355), computes everything from that
\* snapshot and its locals, and issues its update_one calls one by one
\* (lines 375 and 400); between two database calls of one request, any call
\* of another request may run. Here req and resp hold one record per request.

\* The number of concurrent requests
NumRequests == 2
RaceRequests == 1..NumRequests

\* The stored day: three movable half-hour blocks back to back from 09:00,
\* or the same day with the middle block fixed
RaceStores ==
    {<<Block(1, isoformat(At(1, 9, 0, 0)), isoformat(At(1, 9, 30, 0)), FALSE, 30),
       Block(2, isoformat(At(1, 9, 30, 0)), isoformat(At(1, 10, 0, 0)), fixed, 30),
       Block(3, isoformat(At(1, 10, 0, 0)), isoformat(At(1, 10, 30, 0)), FALSE, 30)>> :
     fixed \in BOOLEAN}

\* The request bodies: extend one of the n stored blocks by half an hour,
\* from its stored end or from 10:00
RaceInputs(n) ==
    [block_id : 1..n,
     new_start_iso : {None},
     new_end_iso : {None, isoformat(At(1, 10, 0, 0))},
     extend_minutes : {30}]

InitRace ==
    /\ blocks \in RaceStores
    /\ req = [r \in RaceRequests |-> NoRequest]
    /\ resp = [r \in RaceRequests |-> [pc |-> "idle", writes |-> <<>>, done |-> 0, status |-> 0]]

\* lines 354-372 and the arithmetic of lines 378-398: request r reads the
\* collection and, from this snapshot alone, determines the updates it will
\* make and its status
RaceRead(r) ==
    /\ resp[r].pc = "idle"
    /\ \E inp \in RaceInputs(Len(blocks)) :
          \E out \in {adjust_block(inp, blocks)} :
              /\ req' = [req EXCEPT ![r] = [op |-> "adjust", inp |-> inp, existing |-> blocks]]
              /\ resp' = [resp EXCEPT ![r] =
                            [pc |-> IF out.writes = <<>> THEN "done" ELSE "writing",
                             writes |-> out.writes, done |-> 0, status |-> out.status]]
    /\ UNCHANGED blocks

\* RaceWrite that applies an update only to a block that still is as the
\* request has read it
RaceWriteIfUnchanged(r) ==
    /\ resp[r].pc = "writing"
    /\ LET w == resp[r].writes[resp[r].done + 1]
       IN  /\ blocks' = IF blocks[w.id] = req[r].existing[w.id]
                        THEN UpdateOne(blocks, w.id, w.new_start, w.new_end)
                        ELSE blocks
           /\ resp' = [resp EXCEPT ![r].done = @ + 1,
                                   ![r].pc = IF resp[r].done + 1 = Len(resp[r].writes)
                                             THEN "done" ELSE "writing"]
    /\ UNCHANGED req

\* lines 375 and 400: request r issues its next update_one
RaceWrite(r) ==
    /\ resp[r].pc = "writing"
    /\ LET w == resp[r].writes[resp[r].done + 1]
       IN  /\ blocks' = UpdateOne(blocks, w.id, w.new_start, w.new_end)
           /\ resp' = [resp EXCEPT ![r].done = @ + 1,
                                   ![r].pc = IF resp[r].done + 1 = Len(resp[r].writes)
                                             THEN "done" ELSE "writing"]
    /\ UNCHANGED req

NextRace == \E r \in RaceRequests : RaceRead(r) \/ RaceWrite(r)

SpecRace == InitRace /\ [][NextRace]_vars

\* The collection after request a and then request b, each run alone on the
\* snapshot both requests have read
Serial(a, b) ==
    adjust_block(req[b].inp, adjust_block(req[a].inp, req[a].existing).store).store

\* C19: adjust_block has no cross-request concurrency control: a request
\* reads the collection as it is at that moment, whatever other requests
\* are in flight, and every update it then issues is the one computed from
\* its own snapshot, applied whatever has been written since; so two
\* requests that read the same snapshot can leave a collection that neither
\* serial order produces.
C19_NoConcurrencyControl ==
    [][\A r \in RaceRequests :
          /\ (resp[r].pc = "idle" /\ resp'[r].pc # "idle") =>
                /\ req'[r].existing = blocks
                /\ resp'[r].writes = adjust_block(req'[r].inp, blocks).writes
          /\ resp[r].pc # "idle" => resp'[r].writes = resp[r].writes
          /\ resp'[r].done = resp[r].done + 1 =>
                LET w == resp[r].writes[resp'[r].done]
                IN  /\ blocks'[w.id].start_iso = isoformat(w.new_start)
                    /\ blocks'[w.id].end_iso = isoformat(w.new_end)
                    /\ \A i \in 1..Len(blocks) : i # w.id => blocks'[i] = blocks[i]]_vars

\* Two requests read the same collection without overlaps, both completed,
\* and the collection differs from the result of both serial orders and has
\* two movable blocks overlapping, which neither serial order leaves
C19_Witness ==
    /\ resp[1].pc = "done" /\ resp[2].pc = "done"
    /\ resp[1].status = 200 /\ resp[2].status = 200
    /\ req[1].existing = req[2].existing
    /\ NoMovableOverlap(req[1].existing)
    /\ blocks # Serial(1, 2)
    /\ blocks # Serial(2, 1)
    /\ NoMovableOverlap(Serial(1, 2))
    /\ NoMovableOverlap(Serial(2, 1))
    /\ ~NoMovableOverlap(blocks)

=============================================================================
